---------------------------- MODULE Spec2Model ----------------------------
(***************************************************************************)
(* Game-state inference of the MiSTer remote client: the server-state     *)
(* store (lib/store), the push-message handler (components/WebSocket.tsx)  *)
(* and the GameInfo panel (components/AI/GameInfo.tsx, first revision).    *)
(*                                                                         *)
(* JavaScript strings are TLA+ strings; TLC evaluates Len, \o, SubSeq and  *)
(* Tail on them, so every string function below is computed character by   *)
(* character as the JavaScript built-in computes it.                       *)
(***************************************************************************)
EXTENDS Integers, Sequences, FiniteSets, TLC

VARIABLES
  activeCore,    \* store: ServerState.activeCore
  activeGame,    \* store: ServerState.activeGame
  search,        \* store: ServerState.search
  notified,      \* number of set() calls (subscriber notifications) of the latest store operation
  calls,         \* SpecStore: number of store API calls made so far
  lastCall,      \* SpecStore: the most recent store API call, [op, arg]
  queryResult,   \* SpecStore: what the most recent getGameStateType() call returned
  repeats,       \* SpecStore: getGameStateType() calls since activeCore or activeGame last changed
  wsState,       \* useWs: the ServerState snapshot its last render captured
  delivered,     \* SpecWs: number of push messages handled so far
  lastCoreMsg,   \* SpecWs: payload of the latest coreRunning message handled
  lastGameMsg,   \* SpecWs: payload of the latest gameRunning message handled
  gameInfo,      \* GameInfo: the gameInfo state [sections, loading, error, lastGame]
  displayName,   \* GameInfo: the displayName state
  claudeContext, \* GameInfo: the claudeContext state
  effDeps,       \* GameInfo: the dependency values of the latest run of the main effect
  effTimer,      \* GameInfo: the timeout the latest effect run's cleanup will clear
  timers,        \* GameInfo: the pending setTimeout callbacks, each with its closure
  tasks,         \* GameInfo: the async callbacks awaiting a response, each with its closure
  changes,       \* SpecGameInfo: number of push messages handled so far
  cleared,       \* SpecGameInfo: whether a cleanup has cancelled a pending timeout
  now,           \* SpecTimed: Date.now(), in milliseconds
  lastSnapshot,  \* time-based GameInfo: the lastSnapshot state
  shownState     \* time-based GameInfo: the currentState state

storeVars == <<activeCore, activeGame, search, notified>>
harnessVars == <<calls, lastCall, queryResult, repeats>>
wsVars == <<wsState, delivered, lastCoreMsg, lastGameMsg>>
timedVars == <<now, lastSnapshot, shownState>>
giVars ==
  <<gameInfo, displayName, claudeContext, effDeps, effTimer, timers, tasks,
    changes, cleared, timedVars>>
vars == <<storeVars, harnessVars, wsVars, giVars>>

---------------------------------------------------------------------------
(* JavaScript string built-ins *)

UpperLetters == "ABCDEFGHIJKLMNOPQRSTUVWXYZ"
LowerLetters == "abcdefghijklmnopqrstuvwxyz"
Digits == "0123456789"

charAt(s, i) == SubSeq(s, i, i)

\* ch occurs in the alphabet string abc
IsCharOf(ch, abc) == \E i \in 1..Len(abc) : charAt(abc, i) = ch

\* String.prototype.toLowerCase on one character (ASCII letters)
LowerChar(ch) ==
  IF IsCharOf(ch, UpperLetters)
    THEN charAt(LowerLetters, CHOOSE i \in 1..Len(UpperLetters) : charAt(UpperLetters, i) = ch)
    ELSE ch

RECURSIVE toLowerCase(_)
toLowerCase(s) ==
  IF s = "" THEN "" ELSE LowerChar(charAt(s, 1)) \o toLowerCase(Tail(s))

\* String.prototype.includes: t occurs in s as a contiguous substring
includes(s, t) ==
  \E i \in 0..(Len(s) - Len(t)) : SubSeq(s, i + 1, i + Len(t)) = t

\* String.prototype.indexOf for a one-character needle: 0-based, -1 when absent
indexOf(s, ch) ==
  IF includes(s, ch)
    THEN (CHOOSE i \in 1..Len(s) :
            /\ charAt(s, i) = ch
            /\ \A j \in 1..(i - 1) : charAt(s, j) # ch) - 1
    ELSE -1

\* String.prototype.lastIndexOf for a one-character needle
lastIndexOf(s, ch) ==
  IF includes(s, ch)
    THEN (CHOOSE i \in 1..Len(s) :
            /\ charAt(s, i) = ch
            /\ \A j \in (i + 1)..Len(s) : charAt(s, j) # ch) - 1
    ELSE -1

\* s.split(sep)[0]: the text before the first separator, all of s when there is none
splitFirst(s, sep) ==
  IF indexOf(s, sep) = -1 THEN s ELSE SubSeq(s, 1, indexOf(s, sep))

\* s.split(sep).pop(): the text after the last separator, all of s when there is none
splitLast(s, sep) ==
  SubSeq(s, lastIndexOf(s, sep) + 2, Len(s))

\* s.replace(/[^a-z0-9]/g, '')
RECURSIVE stripNonAlnum(_)
stripNonAlnum(s) ==
  IF s = "" THEN ""
  ELSE (IF IsCharOf(charAt(s, 1), LowerLetters) \/ IsCharOf(charAt(s, 1), Digits)
          THEN charAt(s, 1) ELSE "") \o stripNonAlnum(Tail(s))

\* String.prototype.substring(from, to): arguments below 0 count as 0,
\* arguments beyond the length as the length
substring(s, from, to) ==
  LET lo == IF from < 0 THEN 0 ELSE IF from > Len(s) THEN Len(s) ELSE from
      hi == IF to < 0 THEN 0 ELSE IF to > Len(s) THEN Len(s) ELSE to
  IN  IF lo <= hi THEN SubSeq(s, lo + 1, hi) ELSE SubSeq(s, hi + 1, lo)

\* s.split(sep) for a one-character separator: the sequence of fields
RECURSIVE split(_, _)
split(s, sep) ==
  IF indexOf(s, sep) = -1 THEN <<s>>
  ELSE <<SubSeq(s, 1, indexOf(s, sep))>> \o split(SubSeq(s, indexOf(s, sep) + 2, Len(s)), sep)

digitValue(ch) == (CHOOSE i \in 1..Len(Digits) : charAt(Digits, i) = ch) - 1

RECURSIVE parseDigits(_, _)
parseDigits(s, acc) ==
  IF s = "" \/ ~IsCharOf(charAt(s, 1), Digits) THEN acc
  ELSE parseDigits(Tail(s), acc * 10 + digitValue(charAt(s, 1)))

\* parseInt of an unsigned decimal text: the value of its leading digits,
\* NaN when it starts with none
parseInt(s) ==
  IF s = "" \/ ~IsCharOf(charAt(s, 1), Digits) THEN "NaN" ELSE parseDigits(s, 0)

\* JavaScript falsiness of a string: !s
isEmpty(s) == s = ""

---------------------------------------------------------------------------
(* lib/store: the System Catalog, the arcade classifier, the consistency   *)
(* checker and the resolver                                                 *)

\* The sentinel test the code writes as  !x || x === 'None'
isSentinel(x) == isEmpty(x) \/ x = "None"

ALL_KNOWN_SYSTEMS ==
  << "AdventureVision", "AVision", "Arcadia", "Astrocade", "Atari2600",
     "Atari5200", "Atari7800", "AtariLynx", "CasioPV1000", "CasioPV2000",
     "ChannelF", "CD-i", "Coleco", "ColecoVision", "CreatiVision", "FDS",
     "Gamate", "Gameboy", "Gameboy2P", "GameboyColor", "GameGear",
     "GameNWatch", "GBA", "GBA2P", "Genesis", "Intellivision", "Jaguar",
     "MasterSystem", "MegaDuck", "NES", "NeoGeo", "NeoGeoCD", "Nintendo64",
     "Odyssey2", "PCFX", "PokemonMini", "PSX", "Saturn", "Sega32X", "S32X",
     "MegaCD", "SG1000", "SMS", "SNES", "SuperGameboy", "SuperGrafx",
     "SuperVision", "Tamagotchi", "TurboGrafx16", "TurboGrafx16CD",
     "VC4000", "Vectrex", "WonderSwan", "WonderSwanColor", "AcornAtom",
     "AcornElectron", "AliceMC10", "Amiga", "AmigaCD32", "Amstrad",
     "AmstradPCW", "Apogee", "AppleI", "AppleII", "Apple-II", "Aquarius",
     "Atari800", "AtariST", "BBCMicro", "BK0011M", "C16", "C64",
     "ChipTest", "CoCo2", "CoCo3", "EDSAC", "Galaksija", "Interact",
     "Jupiter", "Laser", "Lynx48", "Macintosh", "MegaST", "MO5", "MSX",
     "MultiComp", "Orao", "Oric", "PC88", "PDP1", "PET2001", "PMD85",
     "RX78", "SAMCoupe", "SharpMZ", "SordM5", "Specialist", "SPMX",
     "TI994A", "TI-99_4A", "TRS80", "TRS-80", "TSConf", "UK101",
     "Vector06", "VIC20", "X68000", "ZX81", "ZXSpectrum", "Arduboy",
     "Chip8", "FlappyBird", "Groovy", "TGFX16", "PCE", "GG", "GameGear",
     "N64", "A7800", "ATARI5200", "ATARI7800", "LYNX", "NGP", "WS" >>

\* system.toLowerCase() of every catalog entry
KnownSystemsLower ==
  [i \in 1..Len(ALL_KNOWN_SYSTEMS) |-> toLowerCase(ALL_KNOWN_SYSTEMS[i])]

\* The catalog test without toLowerCase() on either side
matchesKnownSystem_caseSensitive(core) ==
  \E i \in 1..Len(ALL_KNOWN_SYSTEMS) :
     \/ includes(core, ALL_KNOWN_SYSTEMS[i])
     \/ includes(ALL_KNOWN_SYSTEMS[i], core)

\* ALL_KNOWN_SYSTEMS.some(system => core.toLowerCase().includes(system.toLowerCase())
\*                                  || system.toLowerCase().includes(core.toLowerCase()))
matchesKnownSystem(core) ==
  LET coreLowerCase == toLowerCase(core)
  IN  \E i \in 1..Len(ALL_KNOWN_SYSTEMS) :
         \/ includes(coreLowerCase, KnownSystemsLower[i])
         \/ includes(KnownSystemsLower[i], coreLowerCase)

\* The "smart detection for stale activeGame" block of isArcadeGame
staleGameUnderArcadeCore(core, game) ==
  /\ ~includes(core, "/")
  /\ ~isEmpty(game)
  /\ includes(game, "/")
  /\ LET gameSystem == toLowerCase(splitFirst(game, "/"))
         coreSystem == toLowerCase(core)
     IN  /\ gameSystem # coreSystem
         /\ ~includes(coreSystem, gameSystem)
         /\ ~includes(gameSystem, coreSystem)

\* isArcadeGame without the "activeGame equals activeCore" rule
isArcadeGame_noEqualRule(core, game) ==
  IF isSentinel(core) THEN FALSE
  ELSE IF matchesKnownSystem(core) THEN FALSE
  ELSE IF isSentinel(game) THEN TRUE
  ELSE IF staleGameUnderArcadeCore(core, game) THEN TRUE
  ELSE IF (~isEmpty(game) /\ includes(game, "_Arcade")) \/ includes(core, "_Arcade") THEN TRUE
  ELSE FALSE

\* isArcadeGame with the catalog test placed after the equality and sentinel rules
isArcadeGame_catalogLate(core, game) ==
  IF isSentinel(core) THEN FALSE
  ELSE IF game = core THEN TRUE
  ELSE IF isSentinel(game) THEN TRUE
  ELSE IF matchesKnownSystem(core) THEN FALSE
  ELSE IF staleGameUnderArcadeCore(core, game) THEN TRUE
  ELSE IF (~isEmpty(game) /\ includes(game, "_Arcade")) \/ includes(core, "_Arcade") THEN TRUE
  ELSE FALSE

\* isArcadeGame without the "smart detection for stale activeGame" block
isArcadeGame_noStaleRule(core, game) ==
  IF isSentinel(core) THEN FALSE
  ELSE IF matchesKnownSystem(core) THEN FALSE
  ELSE IF game = core THEN TRUE
  ELSE IF isSentinel(game) THEN TRUE
  ELSE IF (~isEmpty(game) /\ includes(game, "_Arcade")) \/ includes(core, "_Arcade") THEN TRUE
  ELSE FALSE

\* isArcadeGame with the explicit arcade indicators tested before the catalog
isArcadeGame_markerFirst(core, game) ==
  IF isSentinel(core) THEN FALSE
  ELSE IF (~isEmpty(game) /\ includes(game, "_Arcade")) \/ includes(core, "_Arcade") THEN TRUE
  ELSE IF matchesKnownSystem(core) THEN FALSE
  ELSE IF game = core THEN TRUE
  ELSE IF isSentinel(game) THEN TRUE
  ELSE IF staleGameUnderArcadeCore(core, game) THEN TRUE
  ELSE FALSE

\* isArcadeGame that looks for the arcade indicator in the game only
isArcadeGame_gameMarkerOnly(core, game) ==
  IF isSentinel(core) THEN FALSE
  ELSE IF matchesKnownSystem(core) THEN FALSE
  ELSE IF game = core THEN TRUE
  ELSE IF isSentinel(game) THEN TRUE
  ELSE IF staleGameUnderArcadeCore(core, game) THEN TRUE
  ELSE IF ~isEmpty(game) /\ includes(game, "_Arcade") THEN TRUE
  ELSE FALSE

isArcadeGame(core, game) ==
  IF isSentinel(core) THEN FALSE
  ELSE IF matchesKnownSystem(core) THEN FALSE
  ELSE IF game = core THEN TRUE
  ELSE IF isSentinel(game) THEN TRUE
  ELSE IF staleGameUnderArcadeCore(core, game) THEN TRUE
  ELSE IF (~isEmpty(game) /\ includes(game, "_Arcade")) \/ includes(core, "_Arcade") THEN TRUE
  ELSE FALSE

suspiciousPatterns ==
  << [pattern |-> "atari2600", cores |-> <<"atari2600", "atari7800">>],
     [pattern |-> "atari5200", cores |-> <<"atari5200">>],
     [pattern |-> "atari7800", cores |-> <<"atari7800">>],
     [pattern |-> "nes/", cores |-> <<"nes">>],
     [pattern |-> "snes/", cores |-> <<"snes">>],
     [pattern |-> "genesis/", cores |-> <<"genesis", "megadrive">>],
     [pattern |-> "megadrive/", cores |-> <<"genesis", "megadrive">>],
     [pattern |-> "gameboy/", cores |-> <<"gameboy", "gb">>],
     [pattern |-> "gba/", cores |-> <<"gba">>],
     [pattern |-> "c64/", cores |-> <<"c64">>],
     [pattern |-> "amiga/", cores |-> <<"amiga">>],
     [pattern |-> "apple-ii/", cores |-> <<"appleii", "apple-ii">>],
     [pattern |-> "msx/", cores |-> <<"msx">>],
     [pattern |-> "coleco/", cores |-> <<"coleco", "colecovision">>],
     [pattern |-> "intellivision/", cores |-> <<"intellivision">>],
     [pattern |-> "atari800/", cores |-> <<"atari800">>],
     [pattern |-> "commodore64/", cores |-> <<"c64">>],
     [pattern |-> "vic20/", cores |-> <<"vic20">>],
     [pattern |-> "zxspectrum/", cores |-> <<"zxspectrum">>],
     [pattern |-> "amstrad/", cores |-> <<"amstrad">>] >>

\* coreMatches that accepts a core only when it equals one of the identifiers
coreMatches_exact(cores, coreLower) ==
  \E k \in 1..Len(cores) : coreLower = toLowerCase(cores[k])

\* cores.some(core => coreLower.includes(core.toLowerCase())
\*                    || core.toLowerCase().includes(coreLower))
coreMatches(cores, coreLower) ==
  \E k \in 1..Len(cores) :
     \/ includes(coreLower, toLowerCase(cores[k]))
     \/ includes(toLowerCase(cores[k]), coreLower)

\* The loop over suspiciousPatterns: some pattern occurs in the lowercased
\* path and none of its cores matches the normalised core
mismatchedSystem(activeCoreArg, activeGameArg) ==
  /\ includes(activeGameArg, "/")
  /\ LET gamePathLower == toLowerCase(activeGameArg)
         coreLower == stripNonAlnum(toLowerCase(activeCoreArg))
     IN  \E r \in 1..Len(suspiciousPatterns) :
            /\ includes(gamePathLower, suspiciousPatterns[r].pattern)
            /\ ~coreMatches(suspiciousPatterns[r].cores, coreLower)

\* isValidGameForCore that takes only a path separator for a file path
isValidGameForCore_slashOnly(activeCoreArg, activeGameArg) ==
  IF isSentinel(activeGameArg) \/ isSentinel(activeCoreArg) THEN FALSE
  ELSE IF isArcadeGame(activeCoreArg, activeGameArg) THEN activeGameArg = activeCoreArg
  ELSE IF activeGameArg = activeCoreArg THEN FALSE
  ELSE IF mismatchedSystem(activeCoreArg, activeGameArg) THEN FALSE
  ELSE IF includes(activeGameArg, "/") THEN TRUE
  ELSE FALSE

\* isValidGameForCore without the "for arcade games" block
isValidGameForCore_noArcadeRule(activeCoreArg, activeGameArg) ==
  IF isSentinel(activeGameArg) \/ isSentinel(activeCoreArg) THEN FALSE
  ELSE IF activeGameArg = activeCoreArg THEN FALSE
  ELSE IF mismatchedSystem(activeCoreArg, activeGameArg) THEN FALSE
  ELSE IF includes(activeGameArg, "/") \/ includes(activeGameArg, ".") THEN TRUE
  ELSE FALSE

isValidGameForCore(activeCoreArg, activeGameArg) ==
  IF isSentinel(activeGameArg) \/ isSentinel(activeCoreArg) THEN FALSE
  ELSE IF isArcadeGame(activeCoreArg, activeGameArg) THEN activeGameArg = activeCoreArg
  ELSE IF activeGameArg = activeCoreArg THEN FALSE
  ELSE IF mismatchedSystem(activeCoreArg, activeGameArg) THEN FALSE
  ELSE IF includes(activeGameArg, "/") \/ includes(activeGameArg, ".") THEN TRUE
  ELSE FALSE

\* The values the return type of getGameStateType admits
GameStateTypes == {"none", "system", "game", "arcade", "stale"}

\* getGameStateType that tests only the empty core, not the 'None' sentinel
getGameStateType_emptyOnly(core, game) ==
  IF isEmpty(core) THEN "none"
  ELSE IF isArcadeGame(core, game) THEN "arcade"
  ELSE IF isValidGameForCore(core, game) THEN "game"
  ELSE "system"

\* getGameStateType that reports mismatched game data with the reserved value
getGameStateType_stale(core, game) ==
  IF isSentinel(core) THEN "none"
  ELSE IF isArcadeGame(core, game) THEN "arcade"
  ELSE IF isValidGameForCore(core, game) THEN "game"
  ELSE IF ~isSentinel(game) /\ game # core THEN "stale"
  ELSE "system"

\* getGameStateType that asks isValidGameForCore before isArcadeGame
getGameStateType_validFirst(core, game) ==
  IF isSentinel(core) THEN "none"
  ELSE IF isValidGameForCore(core, game) THEN "game"
  ELSE IF isArcadeGame(core, game) THEN "arcade"
  ELSE "system"

\* The body of the store's getGameStateType, on the values get() returned
getGameStateType(core, game) ==
  IF isSentinel(core) THEN "none"
  ELSE IF isArcadeGame(core, game) THEN "arcade"
  ELSE IF isValidGameForCore(core, game) THEN "game"
  ELSE "system"

---------------------------------------------------------------------------
(* components/AI/GameInfo.tsx, second revision: its own arcade test *)

\* The arcade test without the "activeGame is empty/None" rule
GameInfoIsArcadeGame_noSentinelRule(core, game) ==
  IF isSentinel(core) THEN FALSE
  ELSE IF game = core THEN TRUE
  ELSE IF staleGameUnderArcadeCore(core, game) THEN TRUE
  ELSE IF includes(game, "_Arcade") \/ includes(core, "_Arcade") THEN TRUE
  ELSE FALSE

\* isArcadeGame() of the second GameInfo revision, on serverState.activeCore
\* and serverState.activeGame: the same rules without a catalog
GameInfoIsArcadeGame(core, game) ==
  IF isSentinel(core) THEN FALSE
  ELSE IF isSentinel(game) THEN TRUE
  ELSE IF game = core THEN TRUE
  ELSE IF staleGameUnderArcadeCore(core, game) THEN TRUE
  ELSE IF includes(game, "_Arcade") \/ includes(core, "_Arcade") THEN TRUE
  ELSE FALSE

---------------------------------------------------------------------------
(* The values the store is driven with *)

\* A path that contains the pattern of a rule-table entry
RulePath(pattern) ==
  IF charAt(pattern, Len(pattern)) = "/" THEN pattern \o "g.rom" ELSE pattern \o "/g.rom"

RulePaths == {RulePath(suspiciousPatterns[r].pattern) : r \in 1..Len(suspiciousPatterns)}

\* Core identifiers: the sentinels, catalogued systems (one of them with the
\* arcade marker), cores the catalog does not know, and one of those with
\* the arcade marker
Cores ==
  {"", "None", "NES", "nes", "SNES", "Genesis", "GBA", "C64", "NES_Arcade",
   "Pacman", "SomeArcadeCore", "Pac_Arcade"}

\* Game values: the sentinels, bare labels (every core name among them),
\* file names, paths under a system folder, and one path per rule-table entry
Games ==
  Cores \cup RulePaths \cup
  {"Mario", "Mario.sfc", "SNES/Mario.sfc", "NES/Mario.nes", "nes/SomeGame.nes",
   "Genesis/Sonic.md", "GBA/NES/Mario.gba", "NES/Atari2600.nes",
   "_Arcade/Pacman.mra"}

\* The search status the store starts with, and one a push may install
InitialSearch ==
  [ready |-> TRUE, indexing |-> FALSE, totalSteps |-> 0, currentStep |-> 0,
   currentDesc |-> ""]

Searches ==
  {InitialSearch,
   [ready |-> FALSE, indexing |-> TRUE, totalSteps |-> 2, currentStep |-> 1,
    currentDesc |-> "NES"]}

\* Payloads the push feed reports for coreRunning and gameRunning
PushCores == {"", "None", "NES", "Pacman"}
PushGames == {"", "NES/Mario.nes", "Pacman"}

\* The push messages: event:payload lines, one indexStatus line with five
\* fields and one with two, an event the client does not know, and a line
\* without a colon
Messages ==
  {"coreRunning:" \o c : c \in PushCores} \cup
  {"gameRunning:" \o g : g \in PushGames} \cup
  {"indexStatus:n,y,2,1,NES", "indexStatus:y,n", "ping:1", "hello"}

\* How many push messages one behaviour of SpecWs handles
MaxMessages == 3

\* Values the store is driven with while GameInfo is mounted
PanelCores == {"", "NES", "Pacman"}
PanelGames == {"", "NES/Mario.nes"}

\* How many push messages one behaviour of SpecGameInfo handles
MaxChanges == 2

\* How many async callbacks of GameInfo may await a response at once
MaxTasks == 2

\* How many store API calls one behaviour of SpecStore makes
MaxCalls == 3

---------------------------------------------------------------------------
(* lib/store: useServerStateStore *)

StoreInit ==
  /\ activeCore = ""
  /\ activeGame = ""
  /\ search = InitialSearch
  /\ notified = 0

\* setSearch: (search) => set({ search })
setSearch(s) ==
  /\ search' = s
  /\ notified' = 1
  /\ UNCHANGED <<activeCore, activeGame>>

\* setActiveGame that calls set() without comparing
setActiveGame_always(game) ==
  /\ activeGame' = game
  /\ notified' = 1
  /\ UNCHANGED <<activeCore, search>>

\* setActiveGame: set({ activeGame: game }) only when get().activeGame !== game
setActiveGame(game) ==
  /\ IF activeGame # game
       THEN activeGame' = game /\ notified' = 1
       ELSE activeGame' = activeGame /\ notified' = 0
  /\ UNCHANGED <<activeCore, search>>

\* setActiveCore that calls set() without comparing
setActiveCore_always(core) ==
  /\ activeCore' = core
  /\ notified' = 1
  /\ UNCHANGED <<activeGame, search>>

\* setActiveCore: set({ activeCore: core }) only when get().activeCore !== core
setActiveCore(core) ==
  /\ IF activeCore # core
       THEN activeCore' = core /\ notified' = 1
       ELSE activeCore' = activeCore /\ notified' = 0
  /\ UNCHANGED <<activeGame, search>>

---------------------------------------------------------------------------
(* components/AI/GameInfo.tsx, first revision: state and helpers *)

\* JavaScript null
Null == "null"

\* The four sections hold nothing
NoSections == [stateId |-> "", about |-> ""]

\* What /api/claude/game-context may answer: no usable context, a context
\* with SAM active, a context without SAM
NullContext == [sam_active |-> FALSE, game_name |-> "", system_name |-> ""]
SamContext == [sam_active |-> TRUE, game_name |-> "Sonic", system_name |-> "Genesis"]
PlainContext == [sam_active |-> FALSE, game_name |-> "Pac-Man", system_name |-> "Arcade"]
Contexts == {NullContext, SamContext, PlainContext}

\* No effect has run yet, and no timeout is held by a cleanup
NoDeps == <<>>
NoTimer == [stateId |-> "", core |-> "", game |-> ""]

\* The time-based revision's state before its first effect run
NoSnapshot == [core |-> "", game |-> "", timestamp |-> 0, isValidGame |-> FALSE]
NoShownState == [type |-> "none", core |-> "", game |-> "", displayName |-> "No active game"]

TimedInit ==
  /\ now = 0
  /\ lastSnapshot = NoSnapshot
  /\ shownState = NoShownState

GameInfoInit ==
  /\ gameInfo = [sections |-> NoSections, loading |-> FALSE, error |-> Null, lastGame |-> ""]
  /\ displayName = "No active game"
  /\ claudeContext = NullContext
  /\ effDeps = NoDeps
  /\ effTimer = NoTimer
  /\ timers = {}
  /\ tasks = <<>>
  /\ changes = 0
  /\ cleared = FALSE

\* getGameStateType() tabulated over the values the panel's store can hold
PanelStateTypes ==
  [core \in PanelCores, game \in PanelGames |-> getGameStateType(core, game)]

\* serverState.getGameStateType() as GameInfo calls it: whatever the render
\* that created the calling closure saw, it reads the live store through get()
liveGameStateType == PanelStateTypes[activeCore, activeGame]

\* removeFileExtension: the name without its last dot-separated part
removeFileExtension(filename) ==
  IF Len(split(filename, ".")) > 1
    THEN SubSeq(filename, 1, lastIndexOf(filename, "."))
    ELSE filename

\* currentState() of the main effect: core and game are the values of the
\* render, the state type is read from the live store
currentState(core, game) ==
  IF isSentinel(core) THEN "no-core"
  ELSE liveGameStateType \o "-" \o core \o "-" \o game

\* The name updateDisplayName(context) sets: core and game are the values
\* of the render that created the closure, the state type is read live
displayNameFor(core, game, context) ==
  LET gameStateType == liveGameStateType
  IN  IF isSentinel(core) THEN "No active game"
      ELSE IF context.sam_active /\ ~isEmpty(context.game_name) /\ ~isEmpty(context.system_name)
        THEN context.game_name \o " (" \o context.system_name \o ")"
      ELSE IF gameStateType = "arcade" /\ ~isEmpty(context.game_name) /\ ~isEmpty(context.system_name)
        THEN context.game_name \o " (" \o context.system_name \o ")"
      ELSE IF gameStateType = "arcade" THEN core \o " (Arcade)"
      ELSE IF gameStateType = "game"
        THEN removeFileExtension(splitLast(game, "/")) \o " (" \o core \o ")"
      ELSE core \o " System"

\* The gameContext loadGameInfo puts into its prompt
promptContextFor(core, game, context) ==
  LET gameStateType == liveGameStateType
  IN  IF context.sam_active /\ ~isEmpty(context.game_name) THEN context.game_name
      ELSE IF gameStateType = "arcade" /\ ~isEmpty(context.game_name) THEN context.game_name
      ELSE IF gameStateType = "arcade" THEN core
      ELSE IF gameStateType = "game" THEN game
      ELSE core \o " system"

\* clearGameInfo
clearGameInfo ==
  /\ gameInfo' = [sections |-> NoSections, loading |-> FALSE, error |-> Null,
                  lastGame |-> "no-core"]
  /\ displayName' = "No active game"
  /\ claudeContext' = NullContext

\* The sequence seq without its i-th element
removeAt(seq, i) == SubSeq(seq, 1, i - 1) \o SubSeq(seq, i + 1, Len(seq))

---------------------------------------------------------------------------
(* SpecStore: consumers call the store's API directly *)

NoCall == [op |-> "", arg |-> ""]

HarnessInit ==
  /\ calls = 0
  /\ lastCall = NoCall
  /\ queryResult = ""
  /\ repeats = 0

WsInit ==
  /\ wsState = [activeCore |-> "", activeGame |-> ""]
  /\ delivered = 0
  /\ lastCoreMsg = ""
  /\ lastGameMsg = ""

\* The bookkeeping of one API call
recordCall(op, arg) ==
  /\ calls < MaxCalls
  /\ calls' = calls + 1
  /\ lastCall' = [op |-> op, arg |-> arg]

callSetSearch(s) ==
  /\ recordCall("setSearch", s.currentDesc)
  /\ setSearch(s)
  /\ UNCHANGED <<queryResult, repeats, wsVars, giVars>>

callSetActiveGame(game) ==
  /\ recordCall("setActiveGame", game)
  /\ setActiveGame(game)
  /\ repeats' = (IF activeGame # game THEN 0 ELSE repeats)
  /\ UNCHANGED <<queryResult, wsVars, giVars>>

callSetActiveCore(core) ==
  /\ recordCall("setActiveCore", core)
  /\ setActiveCore(core)
  /\ repeats' = (IF activeCore # core THEN 0 ELSE repeats)
  /\ UNCHANGED <<queryResult, wsVars, giVars>>

\* getGameStateType() that returns what it returned before, once it has
\* returned something
callGetGameStateType_cached ==
  /\ recordCall("getGameStateType", "")
  /\ queryResult' = (IF queryResult # "" THEN queryResult
                     ELSE getGameStateType(activeCore, activeGame))
  /\ repeats' = repeats + 1
  /\ notified' = 0
  /\ UNCHANGED <<activeCore, activeGame, search, wsVars, giVars>>

\* getGameStateType() that drops game data it found mismatched
callGetGameStateType_resetting ==
  /\ recordCall("getGameStateType", "")
  /\ queryResult' = getGameStateType(activeCore, activeGame)
  /\ repeats' = repeats + 1
  /\ IF queryResult' = "system" /\ ~isSentinel(activeGame)
       THEN activeGame' = "" /\ notified' = 1
       ELSE activeGame' = activeGame /\ notified' = 0
  /\ UNCHANGED <<activeCore, search, wsVars, giVars>>

\* A consumer calls getGameStateType(): it reads get() and calls no set()
callGetGameStateType ==
  /\ recordCall("getGameStateType", "")
  /\ queryResult' = getGameStateType(activeCore, activeGame)
  /\ repeats' = repeats + 1
  /\ notified' = 0
  /\ UNCHANGED <<activeCore, activeGame, search, wsVars, giVars>>

InitStore == StoreInit /\ HarnessInit /\ WsInit /\ GameInfoInit /\ TimedInit

NextStore ==
  \/ \E s \in Searches : callSetSearch(s)
  \/ \E game \in Games : callSetActiveGame(game)
  \/ \E core \in Cores : callSetActiveCore(core)
  \/ callGetGameStateType

SpecStore == InitStore /\ [][NextStore]_vars

---------------------------------------------------------------------------
(* components/WebSocket.tsx: handleMessage and useWs *)

\* No setter is called: nothing is written and nobody is notified
noWrite ==
  /\ UNCHANGED <<activeCore, activeGame, search>>
  /\ notified' = 0

\* cmd = msg.substring(0, msg.indexOf(":"))
msgCmd(msg) == substring(msg, 0, indexOf(msg, ":"))

\* data = msg.substring(msg.indexOf(":") + 1)
msgData(msg) == substring(msg, indexOf(msg, ":") + 1, Len(msg))

\* handleMessage whose coreRunning branch also empties activeGame when the
\* payload reports no core
handleMessage_resetsGame(msg, serverState) ==
  LET cmd == msgCmd(msg)
      data == msgData(msg)
      args == split(data, ",")
  IN  CASE cmd = "indexStatus" ->
             IF Len(args) = 5
               THEN setSearch([ready |-> args[1] = "y",
                               indexing |-> args[2] = "y",
                               totalSteps |-> parseInt(args[3]),
                               currentStep |-> parseInt(args[4]),
                               currentDesc |-> args[5]])
               ELSE noWrite
        [] cmd = "gameRunning" ->
             IF data # serverState.activeGame THEN setActiveGame(data) ELSE noWrite
        [] cmd = "coreRunning" ->
             IF data # serverState.activeCore
               THEN /\ activeCore' = data
                    /\ activeGame' = (IF isSentinel(data) THEN "" ELSE activeGame)
                    /\ search' = search
                    /\ notified' = 1
               ELSE noWrite
        [] OTHER -> noWrite

\* handleMessage(event, serverState): serverState is the snapshot the last
\* render of useWs captured; the setters it holds act on the live store
handleMessage(msg, serverState) ==
  LET cmd == msgCmd(msg)
      data == msgData(msg)
      args == split(data, ",")
  IN  CASE cmd = "indexStatus" ->
             IF Len(args) = 5
               THEN setSearch([ready |-> args[1] = "y",
                               indexing |-> args[2] = "y",
                               totalSteps |-> parseInt(args[3]),
                               currentStep |-> parseInt(args[4]),
                               currentDesc |-> args[5]])
               ELSE noWrite
        [] cmd = "gameRunning" ->
             IF data # serverState.activeGame THEN setActiveGame(data) ELSE noWrite
        [] cmd = "coreRunning" ->
             IF data # serverState.activeCore THEN setActiveCore(data) ELSE noWrite
        [] OTHER -> noWrite

\* onMessage: the socket delivers one message to the handler of the last render
onMessage(msg) ==
  /\ delivered < MaxMessages
  /\ delivered' = delivered + 1
  /\ handleMessage(msg, wsState)
  /\ lastCoreMsg' = IF msgCmd(msg) = "coreRunning" THEN msgData(msg) ELSE lastCoreMsg
  /\ lastGameMsg' = IF msgCmd(msg) = "gameRunning" THEN msgData(msg) ELSE lastGameMsg
  /\ UNCHANGED <<wsState, harnessVars, giVars>>

\* useWs re-renders after a store change: useServerStateStore() returns the
\* current state, which the new onMessage closure captures
renderWs ==
  /\ wsState # [activeCore |-> activeCore, activeGame |-> activeGame]
  /\ wsState' = [activeCore |-> activeCore, activeGame |-> activeGame]
  /\ UNCHANGED <<storeVars, harnessVars, giVars, delivered, lastCoreMsg, lastGameMsg>>

InitWs == StoreInit /\ HarnessInit /\ WsInit /\ GameInfoInit /\ TimedInit

NextWs ==
  \/ \E msg \in Messages : onMessage(msg)
  \/ renderWs

SpecWs == InitWs /\ [][NextWs]_vars

---------------------------------------------------------------------------
(* components/AI/GameInfo.tsx, first revision: the main effect, its timeout *)
(* and the async callback the timeout starts                              *)

\* The main effect run that leaves the previous run's timeout pending
mainEffect_noCleanup ==
  LET core == activeCore
      game == activeGame
      lastGame == gameInfo.lastGame
      currentStateId == currentState(core, game)
      timeout == [stateId |-> currentStateId, core |-> core, game |-> game]
  IN  /\ effDeps # <<core, game, lastGame>>
      /\ cleared' = cleared
      /\ effDeps' = <<core, game, lastGame>>
      /\ IF currentStateId # lastGame /\ ~isEmpty(core) /\ core # "None"
           THEN /\ timers' = timers \cup {timeout}
                /\ effTimer' = timeout
                /\ UNCHANGED <<gameInfo, displayName, claudeContext>>
           ELSE /\ timers' = timers
                /\ effTimer' = NoTimer
                /\ IF isSentinel(core) /\ lastGame # "no-core"
                     THEN clearGameInfo
                     ELSE UNCHANGED <<gameInfo, displayName, claudeContext>>
      /\ UNCHANGED <<storeVars, harnessVars, wsVars, timedVars, tasks, changes>>

\* The main effect without the "we have an active core" conjuncts of its
\* load condition
mainEffect_noCoreCheck ==
  LET core == activeCore
      game == activeGame
      lastGame == gameInfo.lastGame
      currentStateId == currentState(core, game)
      timeout == [stateId |-> currentStateId, core |-> core, game |-> game]
      kept == timers \ {effTimer}
  IN  /\ effDeps # <<core, game, lastGame>>
      /\ cleared' = (IF effTimer \in timers THEN TRUE ELSE cleared)
      /\ effDeps' = <<core, game, lastGame>>
      /\ IF currentStateId # lastGame
           THEN /\ timers' = kept \cup {timeout}
                /\ effTimer' = timeout
                /\ UNCHANGED <<gameInfo, displayName, claudeContext>>
           ELSE /\ timers' = kept
                /\ effTimer' = NoTimer
                /\ IF isSentinel(core) /\ lastGame # "no-core"
                     THEN clearGameInfo
                     ELSE UNCHANGED <<gameInfo, displayName, claudeContext>>
      /\ UNCHANGED <<storeVars, harnessVars, wsVars, timedVars, tasks, changes>>

\* React renders GameInfo with the store's current values and, a dependency
\* (activeCore, activeGame, gameInfo.lastGame) having changed since the
\* latest run, runs the previous run's cleanup (clearTimeout) and then the
\* effect body
mainEffect ==
  LET core == activeCore
      game == activeGame
      lastGame == gameInfo.lastGame
      currentStateId == currentState(core, game)
      timeout == [stateId |-> currentStateId, core |-> core, game |-> game]
      kept == timers \ {effTimer}
  IN  /\ effDeps # <<core, game, lastGame>>
      /\ cleared' = (IF effTimer \in timers THEN TRUE ELSE cleared)
      /\ effDeps' = <<core, game, lastGame>>
      /\ IF currentStateId # lastGame /\ ~isEmpty(core) /\ core # "None"
           THEN /\ timers' = kept \cup {timeout}
                /\ effTimer' = timeout
                /\ UNCHANGED <<gameInfo, displayName, claudeContext>>
           ELSE /\ timers' = kept
                /\ effTimer' = NoTimer
                /\ IF isSentinel(core) /\ lastGame # "no-core"
                     THEN clearGameInfo
                     ELSE UNCHANGED <<gameInfo, displayName, claudeContext>>
      /\ UNCHANGED <<storeVars, harnessVars, wsVars, timedVars, tasks, changes>>

\* A pending timeout fires after its 500 ms: the async callback starts and
\* awaits fetchClaudeContext().  startedCurrent records whether the store
\* still held the callback's state ID at that moment.
timeoutFires(t) ==
  /\ t \in timers
  /\ Len(tasks) < MaxTasks
  /\ timers' = timers \ {t}
  /\ tasks' = Append(tasks, [phase |-> "context", stateId |-> t.stateId,
                             core |-> t.core, game |-> t.game, about |-> "",
                             startedCurrent |-> (t.stateId = currentState(activeCore, activeGame))])
  /\ UNCHANGED <<storeVars, harnessVars, wsVars, timedVars, gameInfo, displayName,
                 claudeContext, effDeps, effTimer, changes, cleared>>

\* fetchClaudeContext() resolves with a context (NullContext: the request
\* failed and it resolved with null); the callback goes on with
\* updateDisplayName(context) and loadGameInfo(currentStateId, context) up
\* to its await of api.sendClaudeMessage
contextArrives(i, context) ==
  /\ i \in 1..Len(tasks)
  /\ tasks[i].phase = "context"
  /\ claudeContext' = context
  /\ displayName' = displayNameFor(tasks[i].core, tasks[i].game, context)
  /\ gameInfo' = [gameInfo EXCEPT !.loading = TRUE, !.error = Null]
  /\ tasks' = [tasks EXCEPT ![i] =
                 [@ EXCEPT !.phase = "query",
                           !.about = promptContextFor(tasks[i].core, tasks[i].game, context)]]
  /\ UNCHANGED <<storeVars, harnessVars, wsVars, timedVars, effDeps, effTimer, timers,
                 changes, cleared>>

\* The settling of the query with a catch block that does not record the
\* state ID as lastGame
queryReturns_noLastGame(i, ok) ==
  /\ i \in 1..Len(tasks)
  /\ tasks[i].phase = "query"
  /\ gameInfo' =
       IF ok
         THEN [sections |-> [stateId |-> tasks[i].stateId, about |-> tasks[i].about],
               loading |-> FALSE, error |-> Null, lastGame |-> tasks[i].stateId]
         ELSE [gameInfo EXCEPT !.loading = FALSE, !.error = "Failed to load game information"]
  /\ tasks' = removeAt(tasks, i)
  /\ UNCHANGED <<storeVars, harnessVars, wsVars, timedVars, displayName, claudeContext,
                 effDeps, effTimer, timers, changes, cleared>>

\* api.sendClaudeMessage settles: with content (ok), or with an error field
\* or an exception, which the catch block handles
queryReturns(i, ok) ==
  /\ i \in 1..Len(tasks)
  /\ tasks[i].phase = "query"
  /\ gameInfo' =
       IF ok
         THEN [sections |-> [stateId |-> tasks[i].stateId, about |-> tasks[i].about],
               loading |-> FALSE, error |-> Null, lastGame |-> tasks[i].stateId]
         ELSE [gameInfo EXCEPT !.loading = FALSE, !.error = "Failed to load game information",
                               !.lastGame = tasks[i].stateId]
  /\ tasks' = removeAt(tasks, i)
  /\ UNCHANGED <<storeVars, harnessVars, wsVars, timedVars, displayName, claudeContext,
                 effDeps, effTimer, timers, changes, cleared>>

\* The push feed delivers a coreRunning message while GameInfo is mounted:
\* the onMessage closure of the last render of useWs handles it
pushCore(core) ==
  /\ changes < MaxChanges
  /\ changes' = changes + 1
  /\ handleMessage("coreRunning:" \o core, wsState)
  /\ lastCoreMsg' = core
  /\ UNCHANGED <<harnessVars, timedVars, wsState, delivered, lastGameMsg, gameInfo,
                 displayName, claudeContext, effDeps, effTimer, timers, tasks,
                 cleared>>

\* The push feed delivers a gameRunning message while GameInfo is mounted
pushGame(game) ==
  /\ changes < MaxChanges
  /\ changes' = changes + 1
  /\ handleMessage("gameRunning:" \o game, wsState)
  /\ lastGameMsg' = game
  /\ UNCHANGED <<harnessVars, timedVars, wsState, delivered, lastCoreMsg, gameInfo,
                 displayName, claudeContext, effDeps, effTimer, timers, tasks,
                 cleared>>

InitGameInfo == StoreInit /\ HarnessInit /\ WsInit /\ GameInfoInit /\ TimedInit

NextGameInfo ==
  \/ \E core \in PanelCores : pushCore(core)
  \/ \E game \in PanelGames : pushGame(game)
  \/ renderWs
  \/ mainEffect
  \/ \E t \in timers : timeoutFires(t)
  \/ \E i \in 1..MaxTasks : \E context \in Contexts : contextArrives(i, context)
  \/ \E i \in 1..MaxTasks : \E ok \in BOOLEAN : queryReturns(i, ok)

SpecGameInfo == InitGameInfo /\ [][NextGameInfo]_vars

\* GameInfo mounts later in a session, while the NES core runs with no game
\* loaded: the store holds what the feed has delivered, and useWs has
\* rendered with it
InitGameInfoMounted ==
  /\ activeCore = "NES"
  /\ activeGame = ""
  /\ lastCoreMsg = "NES"
  /\ lastGameMsg = ""
  /\ wsState = [activeCore |-> "NES", activeGame |-> ""]
  /\ search = InitialSearch
  /\ notified = 0
  /\ delivered = 0
  /\ HarnessInit
  /\ GameInfoInit
  /\ TimedInit

\* The panel with its scheduling: React commits a pending render and runs a
\* due effect, a pending timeout fires, and every request in flight
\* settles.  The push feed is under no obligation to send anything.
SpecGameInfoFair ==
  /\ InitGameInfoMounted
  /\ [][NextGameInfo]_vars
  /\ WF_vars(renderWs)
  /\ WF_vars(mainEffect)
  /\ WF_vars(\E t \in timers : timeoutFires(t))
  /\ WF_vars(\E i \in 1..MaxTasks : \E context \in Contexts : contextArrives(i, context))
  /\ WF_vars(\E i \in 1..MaxTasks : \E ok \in BOOLEAN : queryReturns(i, ok))

---------------------------------------------------------------------------
(* SpecSnapshot: the GameInfo revision that corroborates every store       *)
(* change with the HTTP snapshot of /api/playing before it loads           *)

\* s.trim(), for blanks
RECURSIVE trim(_)
trim(s) ==
  IF Len(s) > 0 /\ charAt(s, 1) = " " THEN trim(Tail(s))
  ELSE IF Len(s) > 0 /\ charAt(s, Len(s)) = " " THEN trim(SubSeq(s, 1, Len(s) - 1))
  ELSE s

\* What fetchPlayingData() resolves with: a PlayingGame, or null (present is
\* FALSE) when the request failed
NoPlayingData ==
  [present |-> FALSE, core |-> "", systemName |-> "", game |-> "", gameName |-> ""]
IdlePlayingData ==
  [present |-> TRUE, core |-> "", systemName |-> "", game |-> "", gameName |-> ""]
NesMenuPlayingData ==
  [present |-> TRUE, core |-> "NES", systemName |-> "Nintendo", game |-> "", gameName |-> ""]
NesMarioPlayingData ==
  [present |-> TRUE, core |-> "NES", systemName |-> "Nintendo", game |-> "NES/Mario.nes",
   gameName |-> "Mario"]
PacmanPlayingData ==
  [present |-> TRUE, core |-> "Pacman", systemName |-> "", game |-> "", gameName |-> " "]
PlayingDatas ==
  {NoPlayingData, IdlePlayingData, NesMenuPlayingData, NesMarioPlayingData, PacmanPlayingData}

\* !playingData || !playingData.core || playingData.core === 'None'
noCorePlaying(playingData) == ~playingData.present \/ isSentinel(playingData.core)

\* createStateId(playingData)
createStateId(playingData) ==
  IF noCorePlaying(playingData) THEN "no-core"
  ELSE LET gameName == playingData.gameName
           systemName == IF isEmpty(playingData.systemName) THEN playingData.core
                         ELSE playingData.systemName
       IN  systemName \o "|" \o gameName \o "|" \o playingData.core

\* getGameContextFromHttp(data)
getGameContextFromHttp(data) ==
  IF isSentinel(data.core) THEN ""
  ELSE IF ~isEmpty(data.gameName) /\ trim(data.gameName) # "" THEN data.gameName
  ELSE IF ~isEmpty(data.game) /\ trim(data.game) # "" /\ ~isEmpty(splitLast(data.game, "/"))
    THEN removeFileExtension(splitLast(data.game, "/"))
  ELSE IF isEmpty(data.systemName) THEN data.core
  ELSE data.systemName

\* The gameInfo state of this revision before its first effect run
SnapshotInit ==
  /\ gameInfo = [sections |-> NoSections, loading |-> FALSE, error |-> Null,
                 lastStateId |-> "", currentPlayingData |-> NoPlayingData]
  /\ displayName = "No active game"
  /\ claudeContext = NullContext
  /\ effDeps = NoDeps
  /\ effTimer = NoTimer
  /\ timers = {}
  /\ tasks = <<>>
  /\ changes = 0
  /\ cleared = FALSE

\* React renders GameInfo with a changed serverState.activeCore or
\* serverState.activeGame (or mounts it) and runs the main effect, which
\* calls checkAndLoadGameInfo(): the closure holds the gameInfo.lastStateId
\* of this render and awaits fetchPlayingData().  The effect returns no
\* cleanup.  run numbers the effect runs by the pushes handled so far.
checkAndLoadGameInfo ==
  /\ \/ effDeps = NoDeps
     \/ effDeps # NoDeps /\ <<effDeps[1], effDeps[2]>> # <<activeCore, activeGame>>
  /\ Len(tasks) < MaxTasks
  /\ effDeps' = <<activeCore, activeGame, changes>>
  /\ tasks' = Append(tasks, [phase |-> "snapshot", run |-> changes,
                             lastStateId |-> gameInfo.lastStateId,
                             stateId |-> "", playingData |-> NoPlayingData])
  /\ UNCHANGED <<storeVars, harnessVars, wsVars, timedVars, gameInfo, displayName,
                 claudeContext, effTimer, timers, changes, cleared>>

\* fetchPlayingData() resolves and checkAndLoadGameInfo() goes on: it stores
\* the snapshot, schedules loadGameInfo after 500 ms when the snapshot's
\* state ID differs from the closure's lastStateId and a core is running,
\* and calls clearGameInfo() when no core is running
playingDataArrives(i, playingData) ==
  LET currentStateId == createStateId(playingData)
      lastStateId == tasks[i].lastStateId
      timeout == [stateId |-> currentStateId, playingData |-> playingData,
                  run |-> tasks[i].run]
  IN  /\ i \in 1..Len(tasks)
      /\ tasks[i].phase = "snapshot"
      /\ timers' = IF currentStateId # lastStateId /\ ~noCorePlaying(playingData)
                     THEN timers \cup {timeout}
                     ELSE timers
      /\ gameInfo' = IF noCorePlaying(playingData) /\ lastStateId # "no-core"
                       THEN [sections |-> NoSections, loading |-> FALSE, error |-> Null,
                             lastStateId |-> "no-core", currentPlayingData |-> NoPlayingData]
                       ELSE [gameInfo EXCEPT !.currentPlayingData = playingData]
      /\ tasks' = removeAt(tasks, i)
      /\ UNCHANGED <<storeVars, harnessVars, wsVars, timedVars, displayName,
                     claudeContext, effDeps, effTimer, changes, cleared>>

\* A pending timeout fires after its 500 ms and calls loadGameInfo(stateId,
\* playingData), which runs up to its await of api.sendMessage; without a
\* game context it throws before the request and its catch block records
\* the error
loadGameInfoStarts(t) ==
  LET gameContext == getGameContextFromHttp(t.playingData)
  IN  /\ t \in timers
      /\ Len(tasks) < MaxTasks
      /\ timers' = timers \ {t}
      /\ IF isEmpty(gameContext)
           THEN /\ gameInfo' = [gameInfo EXCEPT !.loading = FALSE,
                                                !.error = "No game context available",
                                                !.lastStateId = t.stateId,
                                                !.currentPlayingData = t.playingData]
                /\ tasks' = tasks
           ELSE /\ gameInfo' = [gameInfo EXCEPT !.loading = TRUE, !.error = Null,
                                                !.currentPlayingData = t.playingData]
                /\ tasks' = Append(tasks, [phase |-> "query", run |-> t.run,
                                           lastStateId |-> "", stateId |-> t.stateId,
                                           playingData |-> t.playingData])
      /\ UNCHANGED <<storeVars, harnessVars, wsVars, timedVars, displayName,
                     claudeContext, effDeps, effTimer, changes, cleared>>

\* api.sendMessage settles: with content (ok), or with an exception, which
\* the catch block handles
sendMessageReturns(i, ok) ==
  /\ i \in 1..Len(tasks)
  /\ tasks[i].phase = "query"
  /\ gameInfo' =
       IF ok
         THEN [sections |-> [stateId |-> tasks[i].stateId,
                             about |-> getGameContextFromHttp(tasks[i].playingData)],
               loading |-> FALSE, error |-> Null, lastStateId |-> tasks[i].stateId,
               currentPlayingData |-> tasks[i].playingData]
         ELSE [gameInfo EXCEPT !.loading = FALSE,
                               !.error = "Failed to load game information",
                               !.lastStateId = tasks[i].stateId,
                               !.currentPlayingData = tasks[i].playingData]
  /\ tasks' = removeAt(tasks, i)
  /\ UNCHANGED <<storeVars, harnessVars, wsVars, timedVars, displayName,
                 claudeContext, effDeps, effTimer, timers, changes, cleared>>

InitSnapshot == StoreInit /\ HarnessInit /\ WsInit /\ SnapshotInit /\ TimedInit

NextSnapshot ==
  \/ \E core \in PanelCores : pushCore(core)
  \/ \E game \in PanelGames : pushGame(game)
  \/ renderWs
  \/ checkAndLoadGameInfo
  \/ \E i \in 1..MaxTasks : \E playingData \in PlayingDatas : playingDataArrives(i, playingData)
  \/ \E t \in timers : loadGameInfoStarts(t)
  \/ \E i \in 1..MaxTasks : \E ok \in BOOLEAN : sendMessageReturns(i, ok)

SpecSnapshot == InitSnapshot /\ [][NextSnapshot]_vars

---------------------------------------------------------------------------
(* SpecTimed: the GameInfo revision with the time-based staleness rule     *)

\* The age, in milliseconds, beyond which an unchanged valid game counts as
\* stale
StaleAfterMs == 5000

\* How far the clock of one behaviour of SpecTimed runs, and the steps it
\* advances by, in milliseconds
MaxTime == 12000
TickSteps == {1000, 4000}

\* system.toLowerCase() of every entry of this revision's ALL_KNOWN_SYSTEMS:
\* the store's catalog with SegaCD in the place of MegaCD and without C16
TimedKnownSystemsLower ==
  {toLowerCase(system) :
     system \in ({ALL_KNOWN_SYSTEMS[i] : i \in 1..Len(ALL_KNOWN_SYSTEMS)}
                    \ {"MegaCD", "C16"}) \cup {"SegaCD"}}

\* isArcadeGame(core, game) of this revision
timedIsArcadeGame(core, game) ==
  LET coreLowerCase == toLowerCase(core)
  IN  IF isSentinel(core) THEN FALSE
      ELSE IF \E system \in TimedKnownSystemsLower :
                 includes(coreLowerCase, system) \/ includes(system, coreLowerCase)
        THEN FALSE
      ELSE IF game = core THEN TRUE
      ELSE IF isSentinel(game) THEN TRUE
      ELSE IF staleGameUnderArcadeCore(core, game) THEN TRUE
      ELSE IF includes(game, "_Arcade") \/ includes(core, "_Arcade") THEN TRUE
      ELSE FALSE

\* isValidGame(core, game)
isValidGame(core, game) ==
  /\ ~isEmpty(game)
  /\ game # "None"
  /\ game # core
  /\ includes(game, "/")
  /\ includes(game, ".")

\* determineCurrentStateWithSnapshot(core, game, snapshot), called when
\* Date.now() is time
determineCurrentStateWithSnapshot(core, game, snapshot, time) ==
  LET gameIsValid == isValidGame(core, game)
      isSameData == snapshot.core = core /\ snapshot.game = game
      timeSinceLastSnapshot == time - snapshot.timestamp
      wasValidGame == snapshot.isValidGame
      system == [type |-> "system", core |-> core, game |-> "",
                 displayName |-> core \o " System"]
  IN  IF isSentinel(core) THEN NoShownState
      ELSE IF timedIsArcadeGame(core, game)
        THEN [type |-> "arcade", core |-> core, game |-> core,
              displayName |-> core \o " (Arcade)"]
      ELSE IF isSameData /\ wasValidGame /\ timeSinceLastSnapshot > StaleAfterMs
        THEN system
      ELSE IF gameIsValid
        THEN [type |-> "game", core |-> core, game |-> game,
              displayName |-> removeFileExtension(splitLast(game, "/")) \o " (" \o core \o ")"]
      ELSE system

\* Time passes
tick(ms) ==
  /\ now + ms <= MaxTime
  /\ now' = now + ms
  /\ UNCHANGED <<storeVars, harnessVars, wsVars, gameInfo, displayName, claudeContext,
                 effDeps, effTimer, timers, tasks, changes, cleared, lastSnapshot,
                 shownState>>

\* React renders GameInfo with a changed serverState.activeCore or
\* serverState.activeGame (or mounts it) and runs the main effect: it
\* refreshes the snapshot when the data differ from it, resolves and shows
\* the state, and calls loadGameInfo(newState), which runs up to its await
\* of api.sendClaudeMessage unless gameInfo.lastGame is already the state's ID
timedEffect ==
  LET core == activeCore
      game == activeGame
      serverDataChanged == lastSnapshot.core # core \/ lastSnapshot.game # game
      currentSnapshot == IF serverDataChanged
                           THEN [core |-> core, game |-> game, timestamp |-> now,
                                 isValidGame |-> isValidGame(core, game)]
                           ELSE lastSnapshot
      newState == determineCurrentStateWithSnapshot(core, game, currentSnapshot, now)
      stateId == newState.type \o "-" \o newState.core \o "-" \o newState.game
      gameContext == CASE newState.type = "arcade" -> newState.core
                       [] newState.type = "game" -> newState.game
                       [] OTHER -> newState.core \o " system"
  IN  /\ \/ effDeps = NoDeps
         \/ effDeps # NoDeps /\ effDeps # <<core, game>>
      /\ Len(tasks) < MaxTasks
      /\ effDeps' = <<core, game>>
      /\ lastSnapshot' = currentSnapshot
      /\ shownState' = newState
      /\ IF newState.type # "none" /\ gameInfo.lastGame # stateId
           THEN /\ gameInfo' = [gameInfo EXCEPT !.loading = TRUE, !.error = Null]
                /\ tasks' = Append(tasks, [phase |-> "query", stateId |-> stateId,
                                           about |-> gameContext])
           ELSE UNCHANGED <<gameInfo, tasks>>
      /\ UNCHANGED <<storeVars, harnessVars, wsVars, now, displayName, claudeContext,
                     effTimer, timers, changes, cleared>>

\* What api.sendClaudeMessage may settle with
ClaudeOutcomes == {"content", "error", "exception"}

\* api.sendClaudeMessage settles: with content, with an error field, or
\* with an exception
claudeReturns(i, outcome) ==
  /\ i \in 1..Len(tasks)
  /\ tasks[i].phase = "query"
  /\ gameInfo' =
       CASE outcome = "content" ->
              [sections |-> [stateId |-> tasks[i].stateId, about |-> tasks[i].about],
               loading |-> FALSE, error |-> Null, lastGame |-> tasks[i].stateId]
         [] outcome = "error" ->
              [gameInfo EXCEPT !.loading = FALSE, !.error = "Error loading game information"]
         [] OTHER ->
              [gameInfo EXCEPT !.loading = FALSE, !.error = "Error connecting to Claude AI"]
  /\ tasks' = removeAt(tasks, i)
  /\ UNCHANGED <<storeVars, harnessVars, wsVars, timedVars, displayName, claudeContext,
                 effDeps, effTimer, timers, changes, cleared>>

InitTimed == StoreInit /\ HarnessInit /\ WsInit /\ GameInfoInit /\ TimedInit

NextTimed ==
  \/ \E core \in PanelCores : pushCore(core)
  \/ \E game \in PanelGames : pushGame(game)
  \/ renderWs
  \/ timedEffect
  \/ \E ms \in TickSteps : tick(ms)
  \/ \E i \in 1..MaxTasks : \E outcome \in ClaudeOutcomes : claudeReturns(i, outcome)

SpecTimed == InitTimed /\ [][NextTimed]_vars

---------------------------------------------------------------------------
(* Properties of the store and of the resolver, checked under SpecStore *)

\* What the resolver says of the pair the store holds
currentType == getGameStateType(activeCore, activeGame)

\* A core is loaded and the System Catalog matches it
knownSystemCore(core) == ~isSentinel(core) /\ matchesKnownSystem(core)

\* C1: for every (activeCore, activeGame) the store can hold, getGameStateType
\* yields one of none, system, arcade, game and never the reserved 'stale';
\* the same holds of what a call actually returned.
C1_Totality ==
  /\ currentType \in GameStateTypes \ {"stale"}
  /\ lastCall.op = "getGameStateType" =>
       /\ queryResult \in GameStateTypes \ {"stale"}
       /\ queryResult = currentType

\* A query answered 'system' for game data that is present but rejected
C1_Witness ==
  /\ lastCall.op = "getGameStateType"
  /\ queryResult = "system"
  /\ ~isSentinel(activeGame)
  /\ activeGame # activeCore

\* C2: a setActiveCore / setActiveGame call writes the store and notifies
\* exactly once when its argument differs from the value held, and writes
\* nothing and notifies nobody when it is equal; the same call made twice in
\* a row notifies at most once in total.
C2_SetterIdempotent ==
  [][ /\ (calls' = calls + 1 /\ lastCall'.op = "setActiveCore") =>
           /\ activeCore' = lastCall'.arg
           /\ UNCHANGED <<activeGame, search>>
           /\ notified' = (IF lastCall'.arg # activeCore THEN 1 ELSE 0)
           /\ (lastCall' = lastCall => notified + notified' <= 1)
      /\ (calls' = calls + 1 /\ lastCall'.op = "setActiveGame") =>
           /\ activeGame' = lastCall'.arg
           /\ UNCHANGED <<activeCore, search>>
           /\ notified' = (IF lastCall'.arg # activeGame THEN 1 ELSE 0)
           /\ (lastCall' = lastCall => notified + notified' <= 1)
    ]_vars

\* setActiveCore was called twice in a row with the same loaded core
C2_Witness ==
  /\ calls = 2
  /\ lastCall.op = "setActiveCore"
  /\ lastCall.arg = "NES"
  /\ activeCore = "NES"
  /\ notified = 0

\* The rule-table entries whose pattern the game path contains while the
\* normalised core is none of the entry's identifiers
foreignRules(core, game) ==
  LET path == toLowerCase(game)
      name == stripNonAlnum(toLowerCase(core))
  IN  {r \in 1..Len(suspiciousPatterns) :
         /\ includes(path, suspiciousPatterns[r].pattern)
         /\ \A k \in 1..Len(suspiciousPatterns[r].cores) :
               name # suspiciousPatterns[r].cores[k]}

\* C6: a game path containing a rule-table pattern, with a core that is not
\* one of that entry's identifiers, is not a valid game and never resolves
\* to game.
C6_RuleCoverage ==
  (includes(activeGame, "/") /\ foreignRules(activeCore, activeGame) # {}) =>
     /\ ~isValidGameForCore(activeCore, activeGame)
     /\ currentType # "game"

\* C7: with activeCore '' or 'None' the resolver returns none whatever
\* activeGame holds.
C7_NoCoreIsNone ==
  isSentinel(activeCore) => currentType = "none"

\* The core is the 'None' sentinel and the game is a path
C7_Witness ==
  /\ activeCore = "None"
  /\ activeGame = "SNES/Mario.sfc"
  /\ lastCall.op = "getGameStateType"
  /\ queryResult = "none"

\* C8: a loaded core the catalog does not match, with game equal to core,
\* resolves to arcade.
C8_UnknownCoreEqualGameIsArcade ==
  (~isSentinel(activeCore) /\ ~matchesKnownSystem(activeCore) /\ activeGame = activeCore) =>
     currentType = "arcade"

\* An uncatalogued core with game equal to core has been queried
C8_Witness ==
  /\ activeCore = "Pacman"
  /\ activeGame = "Pacman"
  /\ lastCall.op = "getGameStateType"
  /\ queryResult = "arcade"

\* C9: for a catalogued core the resolver returns system when activeGame
\* equals activeCore and when activeGame is '' or 'None'.
C9_KnownCoreWithoutGameIsSystem ==
  (knownSystemCore(activeCore) /\ (activeGame = activeCore \/ isSentinel(activeGame))) =>
     currentType = "system"

\* The catalogued core NES with game equal to core has been queried
C9_Witness ==
  /\ activeCore = "NES"
  /\ activeGame = "NES"
  /\ lastCall.op = "getGameStateType"
  /\ queryResult = "system"

\* The game is a path under the folder named like the core, ending in a
\* file name with an extension
pathUnderOwnFolder(core, game) ==
  /\ includes(game, "/")
  /\ splitFirst(game, "/") = core
  /\ includes(splitLast(game, "/"), ".")

\* Every rule-table pattern contained in the path accepts the core
rulesAccept(core, game) ==
  LET path == toLowerCase(game)
      name == stripNonAlnum(toLowerCase(core))
  IN  \A r \in 1..Len(suspiciousPatterns) :
         includes(path, suspiciousPatterns[r].pattern) =>
            \E k \in 1..Len(suspiciousPatterns[r].cores) :
               \/ includes(name, suspiciousPatterns[r].cores[k])
               \/ includes(suspiciousPatterns[r].cores[k], name)

\* C10 as stated: a catalogued core with a path under its own folder
\* resolves to game.
C10_Original ==
  (knownSystemCore(activeCore) /\ pathUnderOwnFolder(activeCore, activeGame)) =>
     currentType = "game"

\* C10 as amended: a catalogued core with a path under its own folder
\* resolves to game provided every rule-table pattern contained in the path
\* accepts the core.
C10_OwnFolderIsGame ==
  (/\ knownSystemCore(activeCore)
   /\ pathUnderOwnFolder(activeCore, activeGame)
   /\ rulesAccept(activeCore, activeGame)) =>
     currentType = "game"

\* SNES with SNES/Mario.sfc, whose path contains the patterns nes/ and snes/
C10_Witness ==
  /\ activeCore = "SNES"
  /\ activeGame = "SNES/Mario.sfc"
  /\ lastCall.op = "getGameStateType"
  /\ queryResult = "game"

\* A step is a getGameStateType() call
isQueryStep == calls' = calls + 1 /\ lastCall'.op = "getGameStateType"

\* C14: every getGameStateType() call returns the resolver's result for the
\* activeCore and activeGame the store holds at the moment of the call;
\* nothing is cached, so the first query after a value-changing setter
\* reflects the new value.
C14_QueryReadsCurrentValues ==
  [][ isQueryStep =>
        /\ queryResult' = getGameStateType(activeCore, activeGame)
        /\ queryResult' = getGameStateType(activeCore', activeGame')
    ]_vars

\* The first call changed the core from '' to NES, and the query that
\* followed already answered for NES
C14_Witness ==
  /\ calls = 2
  /\ repeats = 1
  /\ lastCall.op = "getGameStateType"
  /\ activeCore = "NES"
  /\ queryResult = "system"

\* C15: a getGameStateType() call leaves activeCore, activeGame and search
\* unchanged and notifies nobody, and it returns what the previous call
\* returned when neither activeCore nor activeGame has changed in between.
C15_QueryHasNoEffectNoMemory ==
  [][ isQueryStep =>
        /\ UNCHANGED <<activeCore, activeGame, search>>
        /\ notified' = 0
        /\ repeats >= 1 => queryResult' = queryResult
    ]_vars

\* NES was loaded and then queried twice in a row, with the same answer
C15_Witness ==
  /\ calls = 3
  /\ repeats = 2
  /\ lastCall.op = "getGameStateType"
  /\ activeCore = "NES"
  /\ queryResult = "system"

\* The first path segment of the game and the core are unrelated: neither
\* is a case-insensitive substring of the other
unrelatedFirstSegment(core, game) ==
  LET segment == toLowerCase(splitFirst(game, "/"))
      name == toLowerCase(core)
  IN  ~includes(segment, name) /\ ~includes(name, segment)

\* C11: a loaded core the catalog does not match and that contains no '/',
\* with a game path whose first segment is unrelated to the core, resolves
\* to arcade, and the path is not a valid game for the core.
C11_LeakedPathIsArcade ==
  (/\ ~isSentinel(activeCore)
   /\ ~matchesKnownSystem(activeCore)
   /\ ~includes(activeCore, "/")
   /\ includes(activeGame, "/")
   /\ unrelatedFirstSegment(activeCore, activeGame)) =>
     /\ currentType = "arcade"
     /\ ~isValidGameForCore(activeCore, activeGame)

\* SomeArcadeCore with the leaked console path nes/SomeGame.nes was queried
C11_Witness ==
  /\ activeCore = "SomeArcadeCore"
  /\ activeGame = "nes/SomeGame.nes"
  /\ lastCall.op = "getGameStateType"
  /\ queryResult = "arcade"

\* C12: for a core the catalog matches, whatever the game holds,
\* isArcadeGame is false and the resolver does not return arcade.
C12_KnownSystemNeverArcade ==
  matchesKnownSystem(activeCore) =>
     /\ ~isArcadeGame(activeCore, activeGame)
     /\ currentType # "arcade"

\* A catalogued core carrying the arcade marker, with a game path carrying
\* it too, was queried and is not arcade
C12_Witness ==
  /\ activeCore = "NES_Arcade"
  /\ activeGame = "_Arcade/Pacman.mra"
  /\ lastCall.op = "getGameStateType"
  /\ queryResult \in {"game", "system"}

\* toLowerCase() of every core of the universe
CoresLower == [c \in Cores |-> toLowerCase(c)]

\* The cores of the universe that differ from core in letter case at most,
\* and the lowercased core itself
caseVariants(core) ==
  {c \in Cores : CoresLower[c] = CoresLower[core]} \cup {CoresLower[core]}

\* C13: cores that differ only in letter case get the same answer from the
\* catalog test, and when it matches, none of them is arcade.
C13_CatalogCaseInsensitive ==
  \A c \in caseVariants(activeCore) :
     /\ matchesKnownSystem(c) = matchesKnownSystem(activeCore)
     /\ (matchesKnownSystem(activeCore) /\ ~isSentinel(activeCore)) =>
          (~isArcadeGame(c, activeGame) /\ ~isArcadeGame(activeCore, activeGame))

\* The lowercase spelling of a catalogued core was queried with game equal
\* to core, which only the catalog match keeps from being arcade
C13_Witness ==
  /\ activeCore = "nes"
  /\ activeGame = "nes"
  /\ "NES" \in caseVariants(activeCore)
  /\ lastCall.op = "getGameStateType"
  /\ queryResult = "system"

\* The arcade classifier as the ordered first-match-wins list of rules
arcadeReference(core, game) ==
  LET name == toLowerCase(core)
      rule1 == core = "" \/ core = "None"
      rule2 == \E i \in 1..Len(KnownSystemsLower) :
                  \/ includes(name, KnownSystemsLower[i])
                  \/ includes(KnownSystemsLower[i], name)
      rule3 == game = core
      rule4 == game = "" \/ game = "None"
      rule5 == /\ ~includes(core, "/")
               /\ includes(game, "/")
               /\ unrelatedFirstSegment(core, game)
      rule6 == includes(game, "_Arcade") \/ includes(core, "_Arcade")
  IN  CASE rule1 -> FALSE
        [] ~rule1 /\ rule2 -> FALSE
        [] ~rule1 /\ ~rule2 /\ rule3 -> TRUE
        [] ~rule1 /\ ~rule2 /\ ~rule3 /\ rule4 -> TRUE
        [] ~rule1 /\ ~rule2 /\ ~rule3 /\ ~rule4 /\ rule5 -> TRUE
        [] ~rule1 /\ ~rule2 /\ ~rule3 /\ ~rule4 /\ ~rule5 /\ rule6 -> TRUE
        [] OTHER -> FALSE

\* C19: for every (core, game) the store's isArcadeGame equals the ordered
\* first-match-wins reference of seven rules.
C19_ArcadeMatchesReference ==
  isArcadeGame(activeCore, activeGame) = arcadeReference(activeCore, activeGame)

\* A pair only rule 6 decides: an uncatalogued core with the arcade marker
\* and a bare game label
C19_Witness ==
  /\ activeCore = "Pac_Arcade"
  /\ activeGame = "Mario"
  /\ arcadeReference(activeCore, activeGame)
  /\ lastCall.op = "getGameStateType"
  /\ queryResult = "arcade"

\* C20: isValidGameForCore is false when core or game is '' or 'None', and
\* for a pair isArcadeGame classifies as arcade it is true exactly when game
\* equals core.
C20_ValidGameSentinelAndArcade ==
  /\ (isSentinel(activeCore) \/ isSentinel(activeGame)) =>
        ~isValidGameForCore(activeCore, activeGame)
  /\ arcadeReference(activeCore, activeGame) =>
        (isValidGameForCore(activeCore, activeGame) <=> activeGame = activeCore)

\* An arcade core holds a leaked path that no rule-table entry rejects, and
\* the path is not a valid game
C20_Witness ==
  /\ activeCore = "Pacman"
  /\ activeGame = "_Arcade/Pacman.mra"
  /\ arcadeReference(activeCore, activeGame)
  /\ ~isValidGameForCore(activeCore, activeGame)
  /\ lastCall.op = "getGameStateType"
  /\ queryResult = "arcade"

\* The rule table rejects nothing: the game is no path, or every pattern
\* its path contains accepts the core
noRuleMismatch(core, game) == ~includes(game, "/") \/ rulesAccept(core, game)

\* The pair reaches the last test of isValidGameForCore but for the core
\* being loaded: not arcade, game neither a sentinel nor the core, no
\* rule-table mismatch
plainPair(core, game) ==
  /\ ~arcadeReference(core, game)
  /\ ~isSentinel(game)
  /\ game # core
  /\ noRuleMismatch(core, game)

\* C21 as stated: for a non-arcade pair with a non-sentinel game different
\* from the core and no rule-table mismatch, isValidGameForCore is true
\* exactly when the game contains '/' or '.', and a bare label resolves to
\* system.
C21_Original ==
  plainPair(activeCore, activeGame) =>
     /\ isValidGameForCore(activeCore, activeGame) <=>
           (includes(activeGame, "/") \/ includes(activeGame, "."))
     /\ (~includes(activeGame, "/") /\ ~includes(activeGame, ".")) =>
           currentType = "system"

\* C21 as amended: the same for a loaded core (neither '' nor 'None').
C21_PathOrDotIsValid ==
  (~isSentinel(activeCore) /\ plainPair(activeCore, activeGame)) =>
     /\ isValidGameForCore(activeCore, activeGame) <=>
           (includes(activeGame, "/") \/ includes(activeGame, "."))
     /\ (~includes(activeGame, "/") /\ ~includes(activeGame, ".")) =>
           currentType = "system"

\* NES with the bare label Mario was queried and is system
C21_Witness ==
  /\ activeCore = "NES"
  /\ activeGame = "Mario"
  /\ plainPair(activeCore, activeGame)
  /\ ~isValidGameForCore(activeCore, activeGame)
  /\ lastCall.op = "getGameStateType"
  /\ queryResult = "system"

\* C29: whenever the resolver returns game, activeGame is neither '' nor
\* 'None', differs from activeCore, contains '/' or '.', and the pair is
\* not arcade.
C29_GameStateShape ==
  currentType = "game" =>
     /\ ~isSentinel(activeGame)
     /\ activeGame # activeCore
     /\ includes(activeGame, "/") \/ includes(activeGame, ".")
     /\ ~isArcadeGame(activeCore, activeGame)
     /\ ~arcadeReference(activeCore, activeGame)

\* A file name without folder was queried under NES and is a game
C29_Witness ==
  /\ activeCore = "NES"
  /\ activeGame = "Mario.sfc"
  /\ lastCall.op = "getGameStateType"
  /\ queryResult = "game"

\* C30: for a core the catalog does not match, the catalog-free arcade test
\* of the second GameInfo revision and the store's isArcadeGame agree on
\* every game.
C30_OldArcadeTestAgrees ==
  ~matchesKnownSystem(activeCore) =>
     (GameInfoIsArcadeGame(activeCore, activeGame) <=> isArcadeGame(activeCore, activeGame))

\* An uncatalogued core with the game 'None': both tests say arcade
C30_Witness ==
  /\ activeCore = "SomeArcadeCore"
  /\ activeGame = "None"
  /\ GameInfoIsArcadeGame(activeCore, activeGame)
  /\ lastCall.op = "getGameStateType"
  /\ queryResult = "arcade"

---------------------------------------------------------------------------
(* Properties of the push-message handler, checked under SpecWs *)

\* C3: after any sequence of coreRunning / gameRunning messages the store
\* holds the payload of the latest message of each kind ('' when there was
\* none), also when a message is handled before useWs has re-rendered.
C3_StoreHoldsLatestPush ==
  /\ activeCore = lastCoreMsg
  /\ activeGame = lastGameMsg

\* The event name of a push message: the text before its first ':', and
\* nothing when it has no ':'
eventOf(msg) == IF includes(msg, ":") THEN splitFirst(msg, ":") ELSE ""

\* The number of comma-separated fields of a text
fieldCount(text) == Cardinality({i \in 1..Len(text) : charAt(text, i) = ","}) + 1

\* C24: handling one push message changes at most the store field of its
\* event: coreRunning only activeCore, gameRunning only activeGame,
\* indexStatus only search and only with exactly five fields; any other
\* message leaves the store unchanged.
C24_HandlerFrame ==
  [][ \A msg \in Messages :
        onMessage(msg) =>
          /\ eventOf(msg) # "coreRunning" => activeCore' = activeCore
          /\ eventOf(msg) # "gameRunning" => activeGame' = activeGame
          /\ eventOf(msg) # "indexStatus" => search' = search
          /\ (eventOf(msg) = "indexStatus" /\ fieldCount(msgData(msg)) # 5) =>
                search' = search
          /\ eventOf(msg) \notin {"coreRunning", "gameRunning", "indexStatus"} =>
                notified' = 0
    ]_vars

\* A game was running, then the core was reported gone: only activeCore
\* has changed with the second message
C24_Witness ==
  /\ delivered = 3
  /\ lastGameMsg = "NES/Mario.nes"
  /\ lastCoreMsg = ""
  /\ activeCore = ""
  /\ activeGame = "NES/Mario.nes"
  /\ search.currentDesc = "NES"

\* C18: once a coreRunning message that reports no core ('' or 'None') has
\* been handled, activeCore and activeGame both hold '' or 'None'; stated
\* for a handler whose snapshot of the store is up to date.
C18_NoCorePushResets ==
  [][ \A msg \in Messages :
        (/\ msgCmd(msg) = "coreRunning"
         /\ isSentinel(msgData(msg))
         /\ wsState = [activeCore |-> activeCore, activeGame |-> activeGame]
         /\ onMessage(msg)) =>
           /\ isSentinel(activeCore')
           /\ isSentinel(activeGame')
    ]_vars

---------------------------------------------------------------------------
(* Properties of the GameInfo panel, checked under SpecGameInfo *)

\* The state ID of the values the store holds now
storeStateId == currentState(activeCore, activeGame)

\* The main effect's dependencies serverState.activeCore and
\* serverState.activeGame are the values of GameInfo's latest render; they
\* change when React re-renders the panel after a store write, and that
\* commit is the mainEffect step: effDeps holds them.

\* The async callback i was started while the store held its state ID, and
\* the store has left that state ID since
staleTask(i) == tasks[i].startedCurrent /\ tasks[i].stateId # storeStateId

\* C4: when activeCore or activeGame has changed while the context fetch or
\* the AI query of an earlier state ID is in flight, the earlier request's
\* result is discarded: it is written neither into the sections, nor into
\* the display name, nor into lastGame.
C4_StaleResultDiscarded ==
  [][ \A i \in 1..Len(tasks) :
        (/\ staleTask(i)
         /\ \/ \E context \in Contexts : contextArrives(i, context)
            \/ \E ok \in BOOLEAN : queryReturns(i, ok)) =>
           /\ gameInfo'.sections = gameInfo.sections
           /\ gameInfo'.lastGame = gameInfo.lastGame
           /\ displayName' = displayName
    ]_vars

\* Every pending timeout is the one the latest effect run scheduled, for
\* the core and game that run saw
timersOfLatestRun ==
  /\ Cardinality(timers) <= 1
  /\ \A t \in timers :
        /\ t = effTimer
        /\ effDeps # NoDeps
        /\ t.core = effDeps[1]
        /\ t.game = effDeps[2]

\* C5: the settle timeout of a transition is cancelled when a dependency of
\* the main effect changes again before it fires: at most one timeout is
\* pending at any time, it belongs to the latest effect run, and an async
\* callback (context fetch, then AI query) is only ever started for the
\* transition of the latest effect run, never for a superseded one.
C5_SettleTimerCancelled ==
  [][ /\ timersOfLatestRun'
      /\ Len(tasks') > Len(tasks) =>
           /\ effDeps # NoDeps
           /\ tasks'[Len(tasks')].phase = "context"
           /\ tasks'[Len(tasks')].core = effDeps[1]
           /\ tasks'[Len(tasks')].game = effDeps[2]
           /\ tasks'[Len(tasks')].stateId = effTimer.stateId
    ]_vars

\* A transition was superseded before its timeout fired: a cleanup has
\* cancelled a pending timeout, the newer transition's timeout is pending,
\* and no fetch or query is in flight or has written anything
C5_Witness ==
  /\ cleared
  /\ Cardinality(timers) = 1
  /\ tasks = <<>>
  /\ gameInfo.lastGame = "no-core"
  /\ ~gameInfo.loading

\* React has a render of GameInfo to commit: a dependency of the main
\* effect differs from what its latest run saw
effectDue == effDeps # <<activeCore, activeGame, gameInfo.lastGame>>

\* Nothing is written to the store, nobody is notified, and GameInfo gets
\* no timeout, no async callback, no state update and no effect run to do
redeliveryIdle ==
  /\ UNCHANGED <<activeCore, activeGame, search>>
  /\ notified' = 0
  /\ UNCHANGED <<timers, tasks, gameInfo, displayName, claudeContext, effDeps, effTimer>>
  /\ effectDue' <=> effectDue

\* C16: a push message that delivers the value activeCore (activeGame)
\* already holds writes nothing to the store, notifies nobody, and starts
\* no settle timeout, context fetch or AI query in GameInfo.
C16_RedeliveryIsNoOp ==
  [][ /\ \A core \in PanelCores : (core = activeCore /\ pushCore(core)) => redeliveryIdle
      /\ \A game \in PanelGames : (game = activeGame /\ pushGame(game)) => redeliveryIdle
    ]_vars

\* NES was pushed twice (or NES and the game '' the store already held):
\* the latest push wrote nothing, and the panel holds the one load of
\* system-NES- with nothing pending
C16_Witness ==
  /\ changes = 2
  /\ lastCoreMsg = "NES"
  /\ activeCore = "NES"
  /\ activeGame = ""
  /\ notified = 0
  /\ gameInfo.lastGame = "system-NES-"
  /\ timers = {}
  /\ tasks = <<>>
  /\ ~effectDue

\* No settle timeout is pending, no context fetch or AI query is in flight,
\* and the main effect has run for the current values
quiescent == timers = {} /\ tasks = <<>> /\ ~effectDue

\* The label of the state resolved from the store's current values
currentLabel ==
  CASE liveGameStateType = "none" -> "No active game"
    [] liveGameStateType = "arcade" -> activeCore \o " (Arcade)"
    [] liveGameStateType = "game" ->
         removeFileExtension(splitLast(activeGame, "/")) \o " (" \o activeCore \o ")"
    [] OTHER -> activeCore \o " System"

\* C17: whenever GameInfo is quiescent and the latest context is no
\* override (it names no game and SAM is not active), the display name is
\* the label of the state resolved from the store's current values.
C17_DisplayNameIsCurrentLabel ==
  (quiescent /\ claudeContext = NullContext) => displayName = currentLabel

failedIdle ==
  /\ gameInfo.error # Null
  /\ gameInfo.lastGame = storeStateId
  /\ timers = {}
  /\ tasks = <<>>

---------------------------------------------------------------------------
(* Termination of the GameInfo panel, checked under SpecGameInfoFair *)

\* Nothing is pending, loading is off and lastGame is the state ID of the
\* values the store holds
settled ==
  /\ quiescent
  /\ ~gameInfo.loading
  /\ gameInfo.lastGame = storeStateId

\* C25: once the pushes have stopped, and every pending timeout and request
\* completing, GameInfo reaches and keeps a state with no timeout pending,
\* nothing in flight, loading off and lastGame equal to the current state
\* ID ('<type>-<core>-<game>', or 'no-core'): it does not come to rest
\* with a stale lastGame.
C25_EventuallySettled == <>[]settled

---------------------------------------------------------------------------
(* Properties of the snapshot-corroborated revision, checked under         *)
(* SpecSnapshot                                                            *)

\* The timeout t fires and its loadGameInfo sends the AI query
queryStarts(t) == loadGameInfoStarts(t) /\ Len(tasks') > Len(tasks)

\* C22: the settle timeout of a transition is cancelled when a newer store
\* change arrives before it fires: at most one timeout is pending at any
\* time, and an AI query is only ever started by the timeout of the latest
\* effect run, never by a superseded one.
C22_SnapshotTimerCancelled ==
  [][ /\ Cardinality(timers') <= 1
      /\ \A t \in timers : queryStarts(t) => t.run = effDeps[3]
    ]_vars

\* C28: an AI query is sent only for a state ID that differs from the one
\* of the last completed load, and never while a query for the same state
\* ID is already in flight: store changes whose snapshots yield the same
\* state ID produce one query.
C28_OneQueryPerStateId ==
  [][ \A t \in timers :
        queryStarts(t) =>
          /\ t.stateId # gameInfo.lastStateId
          /\ \A j \in 1..Len(tasks) :
                tasks[j].phase = "query" => tasks[j].stateId # t.stateId
    ]_vars

---------------------------------------------------------------------------
(* Properties of the time-based revision, checked under SpecTimed *)

\* The main effect has run for the values the store holds
timedEffectDone == effDeps = <<activeCore, activeGame>>

\* The snapshot records the store's pair as a valid game, and is older than
\* the staleness age
validGameUnchangedTooLong ==
  /\ lastSnapshot.core = activeCore
  /\ lastSnapshot.game = activeGame
  /\ lastSnapshot.isValidGame
  /\ now - lastSnapshot.timestamp > StaleAfterMs

\* C23: when the (core, game) pair the store holds was recorded as a valid
\* game and has stayed unchanged for more than 5 seconds, the state the
\* panel shows is no longer of type game.
C23_UnchangedGameDemoted ==
  (timedEffectDone /\ validGameUnchangedTooLong) => shownState.type # "game"

==========================================================================
